---- MODULE Spec2Model ----
(***************************************************************************)
(* A model of sharedstreets/tile.py: the varint-framed protobuf decoder    *)
(* (iter_objects), the bounding-box filter (is_inside), the three-layer    *)
(* fetch, filter and join (get_tile), the GeoJSON projection               *)
(* (geometry_feature, intersection_feature, reference_feature,             *)
(* make_geojson) and the command line entry point (main).                  *)
(*                                                                         *)
(* Three specifications share the module:                                  *)
(*   SpecFrames  iter_objects over a byte buffer (byte level);             *)
(*   SpecInside  is_inside over rectangles and coordinate lists;           *)
(*   Spec        main: get_tile, make_geojson, print.  Here a response     *)
(*               body is held as the sequence of its frames, each frame    *)
(*               being what one loop iteration of iter_objects makes of    *)
(*               it: a decoded record or a decode error.                   *)
(***************************************************************************)
EXTENDS Integers, Sequences, FiniteSets, TLC

VARIABLES
    pc,               \* position of the running program
    response,         \* the requests.get() result of the running iter_objects, or None
    position,         \* iter_objects' cursor into response.content
    yielded,          \* SpecFrames: the objects iter_objects has yielded so far
    frames,           \* SpecFrames: the messages the server concatenated into the body
    cut,              \* SpecFrames: number of trailing bytes lost from the body
    tile_sw, tile_ne, \* the corners of the requested tile (get_tile lines 66-67)
    geometry,         \* SpecInside: the geometry handed to is_inside
    inside,           \* SpecInside: what is_inside returned
    statuses,         \* status_code of each response fetched so far, in fetch order
    geometries,       \* get_tile's dict of geometries   (ordered: <<key, value>> pairs)
    intersection_ids, \* get_tile's set of intersection ids
    intersections,    \* get_tile's dict of intersections
    references,       \* get_tile's dict of references
    geojson,          \* make_geojson's result
    printed           \* what main has printed

vars == << pc, response, position, yielded, frames, cut, tile_sw, tile_ne, geometry,
           inside, statuses, geometries, intersection_ids, intersections, references,
           geojson, printed >>

\* Python's None: a value of a type of its own (a record, so that it can be compared
\* with the records that stand where it may stand).
None == [none |-> TRUE]

Min(a, b) == IF a < b THEN a ELSE b

\* Python's sequence[lo:hi] for 0 <= lo: the bounds are clamped to the sequence, so a
\* slice that runs past the end is silently shorter and never raises.
Slice(s, lo, hi) == SubSeq(s, Min(lo, Len(s)) + 1, Min(hi, Len(s)))

(***************************************************************************)
(* Bounds of the model.                                                    *)
(***************************************************************************)
MaxMsgs == 2      \* SpecFrames: messages in one response body
MaxCut == 3       \* SpecFrames: trailing bytes a truncation removes
MaxCoord == 4     \* SpecInside: coordinates are 0..MaxCoord
MaxLonlats == 4   \* SpecInside: values in a geometry's lonlats
MaxGeoms == 3     \* Spec: frames in the geometry layer's body
MaxInters == 2    \* Spec: frames in the intersection layer's body
MaxRefs == 2      \* Spec: frames in the reference layer's body

(***************************************************************************)
(* Byte level: varints and the protobuf wire format.                       *)
(***************************************************************************)
\* google.protobuf.internal.decoder._DecodeVarint32(buffer, pos): 7 bits per byte, low
\* group first, the high bit continues; reading past the buffer raises.  shift and
\* result are the loop's locals.  The decoder masks the result to 32 bits; the
\* varints of this model are at most two bytes long (below 2^14), where the mask
\* changes nothing, so it is left out.
RECURSIVE DecodeVarintFrom(_, _, _, _)
DecodeVarintFrom(buffer, pos, shift, result) ==
    IF pos >= Len(buffer) THEN [ok |-> FALSE, value |-> 0, pos |-> pos]
    ELSE LET b == buffer[pos + 1]
             r == result + (b % 128) * (2 ^ shift)
         IN  IF b < 128 THEN [ok |-> TRUE, value |-> r, pos |-> pos + 1]
             ELSE IF shift + 7 >= 64
                  THEN [ok |-> FALSE, value |-> 0, pos |-> pos + 1]
                  ELSE DecodeVarintFrom(buffer, pos + 1, shift + 7, r)

DecodeVarint32(buffer, pos) == DecodeVarintFrom(buffer, pos, 0, 0)

\* DataClass().ParseFromString(message) as far as any message class shares it: the
\* walk over the wire format.  A message is a sequence of fields, each a varint key
\* (field number * 8 + wire type) and a value: wire type 0 a varint, 1 eight bytes,
\* 2 a varint length and that many bytes, 5 four bytes.  Field number 0, the other
\* wire types, and a key, length or value that runs past the end of the message are
\* rejected (ok is FALSE: DecodeError).  The empty message parses: it is the record
\* with every field default.  fields is the sequence of <<number, wire type, value>>.
RECURSIVE ParseFields(_, _, _)
ParseFields(message, pos, acc) ==
    IF pos >= Len(message) THEN [ok |-> TRUE, fields |-> acc]
    ELSE LET key == DecodeVarint32(message, pos)
             DecodeError == [ok |-> FALSE, fields |-> <<>>]
         IN
         IF ~key.ok \/ key.value \div 8 = 0 THEN DecodeError
         ELSE LET num == key.value \div 8
                  wt == key.value % 8
              IN  CASE wt = 0 ->
                        LET v == DecodeVarint32(message, key.pos) IN
                        IF ~v.ok THEN DecodeError
                        ELSE ParseFields(message, v.pos, Append(acc, <<num, wt, v.value>>))
                    [] wt = 2 ->
                        LET n == DecodeVarint32(message, key.pos) IN
                        IF ~n.ok \/ n.pos + n.value > Len(message) THEN DecodeError
                        ELSE ParseFields(message, n.pos + n.value,
                                 Append(acc, <<num, wt, Slice(message, n.pos, n.pos + n.value)>>))
                    [] wt \in {1, 5} ->
                        LET w == IF wt = 1 THEN 8 ELSE 4 IN
                        IF key.pos + w > Len(message) THEN DecodeError
                        ELSE ParseFields(message, key.pos + w,
                                 Append(acc, <<num, wt, Slice(message, key.pos, key.pos + w)>>))
                    [] OTHER -> DecodeError

ParseFromString(message) == ParseFields(message, 0, <<>>)

(***************************************************************************)
(* iter_objects, one loop iteration (lines 37-44).                         *)
(***************************************************************************)
\* A slip in lines 39-40: the slice ends at the message length, not at the cursor plus
\* the message length.
iter_message_absolute_end(content, new_position, message_length) ==
    [message |-> Slice(content, new_position, message_length),
     position |-> new_position + message_length]

\* Lines 39-40: the message is sliced out of the content and the cursor moves past
\* the declared length, whether or not that many bytes were there.
iter_message(content, new_position, message_length) ==
    [message |-> Slice(content, new_position, new_position + message_length),
     position |-> new_position + message_length]

\* Lines 37-44 for a cursor before the end of the content: the outcome is an error
\* (the varint or the parse raised) or the object yielded and the new cursor.
iter_objects(content, pos) ==
    LET len == DecodeVarint32(content, pos) IN
    IF ~len.ok THEN [ok |-> FALSE, object |-> None, position |-> pos]
    ELSE LET m == iter_message(content, len.pos, len.value)
             object == ParseFromString(m.message)
         IN  IF ~object.ok
             THEN [ok |-> FALSE, object |-> None, position |-> m.position]
             ELSE [ok |-> TRUE, object |-> object.fields, position |-> m.position]

(***************************************************************************)
(* SpecFrames: iter_objects run over a response body.                      *)
(***************************************************************************)
\* Message bodies a server may send: the empty message, one varint field, one
\* length-delimited field, two fields, a fixed32 field.
Bodies == { <<>>, <<8, 1>>, <<10, 1, 65>>, <<8, 1, 16, 2>>, <<13, 1, 0, 0, 0>> }

\* The length prefix of a body: the shortest varint, or the same number written with
\* a continuation byte (both are varints _DecodeVarint32 reads as the same number).
Prefix(form, n) == IF form = "short" THEN <<n>> ELSE <<128 + n, 0>>

Frames == [form : {"short", "long"}, body : Bodies]

FrameBytes(f) == Prefix(f.form, Len(f.body)) \o f.body

RECURSIVE Concat(_)
Concat(fs) == IF fs = <<>> THEN <<>> ELSE FrameBytes(Head(fs)) \o Concat(Tail(fs))

SeqsUpTo(S, n) == UNION { [1..k -> S] : k \in 0..n }

\* The unused variables of a specification keep these values.
IdlePipeline ==
    /\ statuses = <<>>
    /\ geometries = <<>>
    /\ intersection_ids = {}
    /\ intersections = <<>>
    /\ references = <<>>
    /\ geojson = None
    /\ printed = None

pipelineVars == << statuses, geometries, intersection_ids, intersections, references,
                   geojson, printed >>
insideVars == << tile_sw, tile_ne, geometry, inside >>
frameVars == << yielded, frames, cut >>

InitFrames ==
    /\ frames \in SeqsUpTo(Frames, MaxMsgs)
    /\ cut \in 0..MaxCut
    /\ cut <= Len(Concat(frames))
    /\ response = [status_code |-> 200,
                   content |-> SubSeq(Concat(frames), 1, Len(Concat(frames)) - cut)]
    /\ position = 0
    /\ yielded = <<>>
    /\ pc = "loop"
    /\ tile_sw = None /\ tile_ne = None /\ geometry = None /\ inside = None
    /\ IdlePipeline

\* One pass of the while loop that yields (lines 36-44).
IterYield ==
    /\ pc = "loop"
    /\ position < Len(response.content)
    /\ iter_objects(response.content, position).ok
    /\ position' = iter_objects(response.content, position).position
    /\ yielded' = Append(yielded, iter_objects(response.content, position).object)
    /\ UNCHANGED << pc, response, frames, cut, insideVars, pipelineVars >>

\* One pass of the while loop that raises (line 37 or 43).
IterRaise ==
    /\ pc = "loop"
    /\ position < Len(response.content)
    /\ ~iter_objects(response.content, position).ok
    /\ pc' = "raised"
    /\ UNCHANGED << response, position, frameVars, insideVars, pipelineVars >>

\* The loop test fails (line 36): the generator is exhausted.
IterStop ==
    /\ pc = "loop"
    /\ position >= Len(response.content)
    /\ pc' = "stopped"
    /\ UNCHANGED << response, position, frameVars, insideVars, pipelineVars >>

NextFrames == IterYield \/ IterRaise \/ IterStop

SpecFrames == InitFrames /\ [][NextFrames]_vars

(***************************************************************************)
(* Properties of iter_objects (SpecFrames).                              *)
(***************************************************************************)
\* The byte offsets at which a message of the untruncated body ends.
Boundaries == { Len(Concat(SubSeq(frames, 1, k))) : k \in 0..Len(frames) }

\* The body was cut inside a message: inside its length varint or inside its bytes.
MidMessage == cut > 0 /\ Len(response.content) \notin Boundaries

\* C1: over a body that is the concatenation of N valid varint-prefixed messages,
\* iter_objects never raises, the k-th object it yields is the decoding of the k-th
\* message body, and it stops after exactly N objects with the cursor at the end of
\* the buffer.
C1_FramesDecodedInOrder ==
    cut = 0 =>
        /\ pc # "raised"
        /\ Len(yielded) <= Len(frames)
        /\ \A k \in 1..Len(yielded) :
               /\ ParseFromString(frames[k].body).ok
               /\ yielded[k] = ParseFromString(frames[k].body).fields
        /\ pc = "stopped" =>
               /\ Len(yielded) = Len(frames)
               /\ position = Len(response.content)

C1_Witness ==
    /\ pc = "stopped" /\ cut = 0
    /\ Len(frames) >= 2
    /\ frames[1].form = "long" /\ Len(frames[1].body) > 2
    /\ frames[2].form = "short" /\ Len(frames[2].body) > 0
    /\ Len(yielded) = Len(frames)

\* C2: a body cut inside its last message makes iter_objects end with a decode
\* error; it never stops normally.
C2_TruncationRaises == (MidMessage /\ pc # "loop") => pc = "raised"

(***************************************************************************)
(* is_inside (lines 46-58).                                                *)
(***************************************************************************)
SetMax(S) == CHOOSE x \in S : \A y \in S : y <= x
SetMin(S) == CHOOSE x \in S : \A y \in S : x <= y

\* Lines 49-50: the values at the even (0, 2, ...) and at the odd (1, 3, ...) indexes.
Lons(lonlats) == { lonlats[i] : i \in { j \in 1..Len(lonlats) : j % 2 = 1 } }
Lats(lonlats) == { lonlats[i] : i \in { j \in 1..Len(lonlats) : j % 2 = 0 } }

Returns(v) == [raised |-> FALSE, value |-> v]
ValueError == [raised |-> TRUE, value |-> FALSE]

\* A slip in lines 52 and 55: the comparisons made non-strict, which shuts out a
\* geometry that touches an edge of the rectangle.
is_inside_exclusive(southwest, northeast, geom) ==
    LET lons == Lons(geom.lonlats)
        lats == Lats(geom.lonlats)
    IN  IF lons = {} THEN ValueError
        ELSE IF SetMax(lons) <= southwest.lon \/ northeast.lon <= SetMin(lons)
             THEN Returns(FALSE)
        ELSE IF lats = {} THEN ValueError
        ELSE IF SetMax(lats) <= southwest.lat \/ northeast.lat <= SetMin(lats)
             THEN Returns(FALSE)
        ELSE Returns(TRUE)

\* Lines 49-58.  max() and min() of an empty list raise ValueError; the latitudes
\* are looked at only when the longitudes did not already decide (elif).
is_inside(southwest, northeast, geom) ==
    LET lons == Lons(geom.lonlats)
        lats == Lats(geom.lonlats)
    IN  IF lons = {} THEN ValueError
        ELSE IF SetMax(lons) < southwest.lon \/ northeast.lon < SetMin(lons)
             THEN Returns(FALSE)
        ELSE IF lats = {} THEN ValueError
        ELSE IF SetMax(lats) < southwest.lat \/ northeast.lat < SetMin(lats)
             THEN Returns(FALSE)
        ELSE Returns(TRUE)

(***************************************************************************)
(* SpecInside: is_inside called on a rectangle and a geometry.             *)
(***************************************************************************)
Coords == 0..MaxCoord

\* get_tile lines 66-67: the south-west corner is the tile's lower left, the
\* north-east corner its upper right, so it lies strictly north and east of it.
InitInside ==
    /\ tile_sw \in [lon : Coords, lat : Coords]
    /\ tile_ne \in [lon : Coords, lat : Coords]
    /\ tile_sw.lon > 0 /\ tile_sw.lat > 0
    /\ tile_ne.lon < MaxCoord /\ tile_ne.lat < MaxCoord
    /\ tile_sw.lon < tile_ne.lon /\ tile_sw.lat < tile_ne.lat
    /\ geometry \in [lonlats : SeqsUpTo(Coords, MaxLonlats)]
    /\ inside = None
    /\ pc = "call"
    /\ response = None /\ position = 0
    /\ yielded = <<>> /\ frames = <<>> /\ cut = 0
    /\ IdlePipeline

CallIsInside ==
    /\ pc = "call"
    /\ inside' = is_inside(tile_sw, tile_ne, geometry)
    /\ pc' = IF is_inside(tile_sw, tile_ne, geometry).raised THEN "raised" ELSE "returned"
    /\ UNCHANGED << response, position, frameVars, tile_sw, tile_ne, geometry, pipelineVars >>

NextInside == CallIsInside

SpecInside == InitInside /\ [][NextInside]_vars

(***************************************************************************)
(* Properties of is_inside (SpecInside).                                 *)
(***************************************************************************)
\* The points of the geometry, as far as lonlats pairs them up.
Vertices(lonlats) == { <<lonlats[2 * i - 1], lonlats[2 * i]>> : i \in 1..(Len(lonlats) \div 2) }

InRect(p) ==
    /\ tile_sw.lon <= p[1] /\ p[1] <= tile_ne.lon
    /\ tile_sw.lat <= p[2] /\ p[2] <= tile_ne.lat

InEnvelope(p) ==
    /\ \E a, b \in Lons(geometry.lonlats) : a <= p[1] /\ p[1] <= b
    /\ \E a, b \in Lats(geometry.lonlats) : a <= p[2] /\ p[2] <= b

\* The closed envelope and the closed rectangle share a point (with whole-number
\* corners, two closed boxes that meet share a whole-number point).
EnvelopeMeetsRect == \E p \in Coords \X Coords : InRect(p) /\ InEnvelope(p)

BeyondOneEdge ==
    \/ \A x \in Lons(geometry.lonlats) : x < tile_sw.lon
    \/ \A x \in Lons(geometry.lonlats) : x > tile_ne.lon
    \/ \A y \in Lats(geometry.lonlats) : y < tile_sw.lat
    \/ \A y \in Lats(geometry.lonlats) : y > tile_ne.lat

\* C4: for a geometry with an envelope (at least one longitude and one latitude),
\* is_inside returns, and returns true exactly when the envelope overlaps or touches
\* the rectangle, bounds inclusive: false for a geometry wholly beyond one edge, and
\* true for one with a vertex in the rectangle.
C4_InsideIffEnvelopesMeet ==
    (pc # "call" /\ Len(geometry.lonlats) >= 2) =>
        /\ pc = "returned"
        /\ inside.value <=> EnvelopeMeetsRect
        /\ BeyondOneEdge => ~inside.value
        /\ (\E p \in Vertices(geometry.lonlats) : InRect(p)) => inside.value

\* The envelope touches the rectangle's west edge and nothing more, and is_inside
\* has returned true.
C4_Witness ==
    /\ pc = "returned"
    /\ Len(geometry.lonlats) = 4
    /\ SetMax(Lons(geometry.lonlats)) = tile_sw.lon
    /\ SetMin(Lons(geometry.lonlats)) < tile_sw.lon
    /\ inside.value

(***************************************************************************)
(* Ids, coordinates and Python's dict.                                     *)
(***************************************************************************)
TruncLen == 12

\* truncate_id (line 23): id[:12].  An id is a sequence of characters.
truncate_id(id) == Slice(id, 0, TruncLen)

\* round_coord (line 28): round(float, 7).  A coordinate is a whole number of 1e-8
\* degrees, so 7 decimal places are the multiples of 10; a tie goes to the even
\* multiple, as Python's round does.
round_coord(v) ==
    LET q == v \div 10
        r == v % 10
    IN  IF r < 5 THEN 10 * q
        ELSE IF r > 5 THEN 10 * (q + 1)
        ELSE IF q % 2 = 0 THEN 10 * q ELSE 10 * (q + 1)

\* A dict is the sequence of its <<key, value>> items in iteration order.
DictValues(d) == [i \in 1..Len(d) |-> d[i][2]]
DictKeySet(d) == { d[i][1] : i \in 1..Len(d) }

\* A dict that moves a key assigned again to the end of the iteration order.
DictSetMovingToEnd(d, k, v) ==
    Append(SelectSeq(d, LAMBDA item : item[1] # k), <<k, v>>)

\* d[k] = v (the comprehensions of lines 74, 84, 91): a new key goes to the end, a
\* key already there keeps its place and takes the new value.
DictSet(d, k, v) ==
    IF k \in DictKeySet(d)
    THEN [i \in 1..Len(d) |-> IF d[i][1] = k THEN <<k, v>> ELSE d[i]]
    ELSE Append(d, <<k, v>>)

(***************************************************************************)
(* The records of the three layers (sharedstreets_pb2, as tile.py reads    *)
(* them) and the bodies the tile server may answer with.                   *)
(***************************************************************************)
Pad == [i \in 1..TruncLen |-> "a"]
IdA == Pad \o <<"x">>          \* two ids that agree on their first 12 characters
IdB == Pad \o <<"y">>
IdC == <<"c">>
IdP == <<"p">>
IdQ == <<"q">>
IdU == <<"u">>
IdZ == <<"z">>                 \* an id no record of any layer has
IdR == Pad \o <<"r">>
IdS == Pad \o <<"s">>

Geometry(id, from, to, lonlats) ==
    [id |-> id, forwardReferenceId |-> IdR, backReferenceId |-> <<>>,
     fromIntersectionId |-> from, toIntersectionId |-> to, roadClass |-> 6,
     lonlats |-> lonlats]

Intersection(id, lon, lat) ==
    [id |-> id, lon |-> lon, lat |-> lat,
     inboundReferenceIds |-> <<IdR>>, outboundReferenceIds |-> <<IdR, IdS>>]

LocationReference(id, lon, lat) ==
    [intersectionId |-> id, distanceToNextRef |-> 1000, inboundBearing |-> 90,
     outboundBearing |-> 95, lon |-> lon, lat |-> lat]

Reference(id, geometryId, n) ==
    [id |-> id, geometryId |-> geometryId, formOfWay |-> 2,
     locationReferences |-> [i \in 1..n |-> LocationReference(IdP, 104 + i, 206)]]

\* What one loop iteration of iter_objects makes of a frame of the body.
Decoded(object) == [ok |-> TRUE, object |-> object]
Undecodable == [ok |-> FALSE, object |-> None]

\* The requested tile: get_tile lines 64-67.
TileSW == [lon |-> 100, lat |-> 100]
TileNE == [lon |-> 300, lat |-> 300]

GeometryFrames ==
    { Decoded(Geometry(IdA, IdP, IdQ, <<104, 206, 300, 300>>)),    \* in the tile
      Decoded(Geometry(IdA, IdQ, IdQ, <<100, 100, 115, 125>>)),    \* same id, in the tile
      Decoded(Geometry(IdA, IdU, IdU, <<400, 400, 500, 500>>)),    \* same id, outside
      Decoded(Geometry(IdB, IdP, IdZ, <<0, 0, 100, 100>>)),        \* touches the corner
      Decoded(Geometry(IdC, IdP, IdP, <<200, 200, 250>>)),         \* odd lonlats
      Decoded(Geometry(IdC, IdP, IdP, <<200, 200>>)),              \* a single point
      Decoded(Geometry(IdC, IdP, IdP, <<200>>)),                   \* a longitude only
      Decoded(Geometry(IdC, IdP, IdP, <<>>)),                      \* no lonlats
      Undecodable }

IntersectionFrames ==
    { Decoded(Intersection(IdP, 104, 206)),
      Decoded(Intersection(IdQ, 300, 300)),
      Decoded(Intersection(IdC, 200, 200)),                        \* no geometry names it
      Undecodable }

ReferenceFrames ==
    { Decoded(Reference(IdR, IdA, 2)),
      Decoded(Reference(IdS, IdB, 2)),
      Decoded(Reference(IdC, IdA, 1)),
      Decoded(Reference(IdP, IdA, 3)),
      Decoded(Reference(IdQ, IdA, 0)),
      Decoded(Reference(IdU, IdZ, 2)),                             \* its geometry is missing
      Undecodable }

\* What requests.get (line 33) may return: a success with any body, or a
\* non-success status with an empty body or with a body that is no protobuf.
Responses(F, n) ==
    { [status_code |-> 200, content |-> c] : c \in SeqsUpTo(F, n) }
    \cup { [status_code |-> 404, content |-> c] : c \in { <<>>, <<Undecodable>> } }

(***************************************************************************)
(* get_tile (lines 60-96).                                                 *)
(***************************************************************************)
\* Lines 82-83.
FromToIds(geoms) ==
    { g.fromIntersectionId : g \in { geoms[i][2] : i \in 1..Len(geoms) } }
    \cup { g.toIntersectionId : g \in { geoms[i][2] : i \in 1..Len(geoms) } }

\* An intersection filter that forgets the join.
KeepAnyIntersection(inter, ids) == TRUE

\* The condition of the comprehension of lines 84-85.
KeepIntersection(inter, ids) == inter.id \in ids

\* A reference filter that forgets the join.
KeepAnyReference(ref, geoms) == TRUE

\* The condition of the comprehension of lines 91-92.
KeepReference(ref, geoms) == ref.geometryId \in DictKeySet(geoms)

(***************************************************************************)
(* The projections (lines 98-169) and make_geojson (lines 171-188).        *)
(***************************************************************************)
\* zip() of lines 115-118: the rounded longitudes paired with the rounded latitudes,
\* as many pairs as the shorter of the two lists has.
Coordinates(lonlats) ==
    [i \in 1..(Len(lonlats) \div 2) |->
        <<round_coord(lonlats[2 * i - 1]), round_coord(lonlats[2 * i])>>]

\* Lines 98-121.
geometry_feature(g) ==
    [type |-> "Feature",
     role |-> "SharedStreets:Geometry",
     id |-> truncate_id(g.id),
     properties |->
        [id |-> truncate_id(g.id),
         forwardReferenceId |-> truncate_id(g.forwardReferenceId),
         startIntersectionId |-> truncate_id(g.fromIntersectionId),
         backReferenceId |-> truncate_id(g.backReferenceId),
         endIntersectionId |-> truncate_id(g.toIntersectionId),
         roadClass |-> g.roadClass],
     geometry |-> [type |-> "LineString", coordinates |-> Coordinates(g.lonlats)]]

\* Lines 123-139.
intersection_feature(x) ==
    [type |-> "Feature",
     role |-> "SharedStreets:Intersection",
     id |-> truncate_id(x.id),
     properties |->
        [id |-> truncate_id(x.id),
         inboundSegmentIds |->
            [i \in 1..Len(x.inboundReferenceIds) |-> truncate_id(x.inboundReferenceIds[i])],
         outboundSegmentIds |->
            [i \in 1..Len(x.outboundReferenceIds) |-> truncate_id(x.outboundReferenceIds[i])]],
     geometry |-> [type |-> "Point",
                   coordinates |-> <<round_coord(x.lon), round_coord(x.lat)>>]]

\* Line 144, LR0, LR1 = reference.locationReferences: the unpacking raises
\* ValueError unless there are exactly two.
Unpacks(ref) == Len(ref.locationReferences) = 2

\* An unpacking that takes the first and the last entry of any non-empty list.
reference_feature_first_last(ref) ==
    LET n == Len(ref.locationReferences)
        LR0 == ref.locationReferences[1]
        LR1 == ref.locationReferences[n]
    IN  IF n = 0 THEN [raised |-> TRUE, value |-> None]
        ELSE [raised |-> FALSE, value |->
            [role |-> "SharedStreets:Reference",
             id |-> truncate_id(ref.id),
             geometryId |-> truncate_id(ref.geometryId),
             formOfWay |-> ref.formOfWay,
             locationReferences |-> <<
                [sequence |-> 0,
                 intersectionId |-> truncate_id(LR0.intersectionId),
                 distanceToNextRef |-> LR0.distanceToNextRef,
                 bearing |-> LR0.inboundBearing,
                 outBearing |-> LR0.outboundBearing,
                 point |-> <<round_coord(LR0.lon), round_coord(LR0.lat)>>],
                [sequence |-> 1,
                 intersectionId |-> truncate_id(LR1.intersectionId),
                 distanceToNextRef |-> None,
                 bearing |-> None,
                 outBearing |-> None,
                 point |-> <<round_coord(LR1.lon), round_coord(LR1.lat)>>] >>]]

\* Lines 141-169.
reference_feature(ref) ==
    IF ~Unpacks(ref) THEN [raised |-> TRUE, value |-> None]
    ELSE LET LR0 == ref.locationReferences[1]
             LR1 == ref.locationReferences[2]
         IN  [raised |-> FALSE, value |->
            [role |-> "SharedStreets:Reference",
             id |-> truncate_id(ref.id),
             geometryId |-> truncate_id(ref.geometryId),
             formOfWay |-> ref.formOfWay,
             locationReferences |-> <<
                [sequence |-> 0,
                 intersectionId |-> truncate_id(LR0.intersectionId),
                 distanceToNextRef |-> LR0.distanceToNextRef,
                 bearing |-> LR0.inboundBearing,
                 outBearing |-> LR0.outboundBearing,
                 point |-> <<round_coord(LR0.lon), round_coord(LR0.lat)>>],
                [sequence |-> 1,
                 intersectionId |-> truncate_id(LR1.intersectionId),
                 distanceToNextRef |-> None,
                 bearing |-> None,
                 outBearing |-> None,
                 point |-> <<round_coord(LR1.lon), round_coord(LR1.lat)>>] >>]]

\* The loops of lines 176-186: each appends the projection of the next value.
RECURSIVE AppendGeometries(_, _)
AppendGeometries(features, values) ==
    IF values = <<>> THEN features
    ELSE AppendGeometries(Append(features, geometry_feature(Head(values))), Tail(values))

RECURSIVE AppendIntersections(_, _)
AppendIntersections(features, values) ==
    IF values = <<>> THEN features
    ELSE AppendIntersections(Append(features, intersection_feature(Head(values))), Tail(values))

\* The reference loop stops at the first reference_feature that raises.
RECURSIVE AppendReferences(_, _)
AppendReferences(refs, values) ==
    IF values = <<>> THEN [raised |-> FALSE, value |-> refs]
    ELSE LET r == reference_feature(Head(values)) IN
         IF r.raised THEN [raised |-> TRUE, value |-> None]
         ELSE AppendReferences(Append(refs, r.value), Tail(values))

\* A feature loop that skips a geometry whose truncated id is already in the list.
RECURSIVE AppendGeometriesOnce(_, _)
AppendGeometriesOnce(features, values) ==
    IF values = <<>> THEN features
    ELSE AppendGeometriesOnce(
            IF \E i \in 1..Len(features) : features[i].id = truncate_id(Head(values).id)
            THEN features
            ELSE Append(features, geometry_feature(Head(values))),
            Tail(values))

make_geojson_deduplicating(geoms, inters, refs) ==
    LET features == AppendIntersections(AppendGeometriesOnce(<<>>, DictValues(geoms)),
                                        DictValues(inters))
        rs == AppendReferences(<<>>, DictValues(refs))
    IN  IF rs.raised THEN [raised |-> TRUE, value |-> None]
        ELSE [raised |-> FALSE,
              value |-> [type |-> "FeatureCollection", features |-> features,
                         references |-> rs.value]]

\* Lines 171-188.
make_geojson(geoms, inters, refs) ==
    LET features == AppendIntersections(AppendGeometries(<<>>, DictValues(geoms)),
                                        DictValues(inters))
        rs == AppendReferences(<<>>, DictValues(refs))
    IN  IF rs.raised THEN [raised |-> TRUE, value |-> None]
        ELSE [raised |-> FALSE,
              value |-> [type |-> "FeatureCollection", features |-> features,
                         references |-> rs.value]]

(***************************************************************************)
(* Spec: main (lines 195-199) running get_tile, make_geojson and print.    *)
(***************************************************************************)
Init ==
    /\ pc = "get_geometry"
    /\ tile_sw = TileSW /\ tile_ne = TileNE
    /\ response = None /\ position = 0
    /\ yielded = <<>> /\ frames = <<>> /\ cut = 0
    /\ geometry = None /\ inside = None
    /\ IdlePipeline

idleVars == << frameVars, tile_sw, tile_ne, geometry, inside >>

\* requests.get(url) of line 33 raises (no connection, a timeout).
GetRaises ==
    /\ pc \in {"get_geometry", "get_intersection", "get_reference"}
    /\ pc' = "raised"
    /\ UNCHANGED << response, position, idleVars, pipelineVars >>

\* requests.get(url) of line 33 returns a response, whatever its status: nothing
\* in tile.py reads status_code or calls raise_for_status().
Get(layer, F, n) ==
    /\ pc = "get_" \o layer
    /\ \E r \in Responses(F, n) :
          /\ response' = r
          /\ statuses' = Append(statuses, r.status_code)
    /\ position' = 0
    /\ pc' = layer
    /\ UNCHANGED << idleVars, geometries, intersection_ids, intersections, references,
                    geojson, printed >>

GetGeometry == Get("geometry", GeometryFrames, MaxGeoms)
GetIntersection == Get("intersection", IntersectionFrames, MaxInters)
GetReference == Get("reference", ReferenceFrames, MaxRefs)

\* The frame the cursor is at.
Frame == response.content[position + 1]

InLoop(layer) == pc = layer /\ position < Len(response.content)
Exhausted(layer) == pc = layer /\ position >= Len(response.content)

\* One pass of the comprehension of lines 74-75: iter_objects yields the next
\* geometry or raises; is_inside keeps it, drops it or raises.
GeometryNext ==
    /\ InLoop("geometry")
    /\ IF ~Frame.ok \/ is_inside(tile_sw, tile_ne, Frame.object).raised
       THEN /\ pc' = "raised"
            /\ UNCHANGED << position, geometries >>
       ELSE /\ position' = position + 1
            /\ geometries' = IF is_inside(tile_sw, tile_ne, Frame.object).value
                             THEN DictSet(geometries, Frame.object.id, Frame.object)
                             ELSE geometries
            /\ pc' = pc
    /\ UNCHANGED << response, idleVars, statuses, intersection_ids, intersections,
                    references, geojson, printed >>

\* The geometry layer is exhausted; lines 82-83 collect the intersection ids.
GeometryDone ==
    /\ Exhausted("geometry")
    /\ intersection_ids' = FromToIds(geometries)
    /\ response' = None /\ position' = 0
    /\ pc' = "get_intersection"
    /\ UNCHANGED << idleVars, statuses, geometries, intersections, references,
                    geojson, printed >>

\* One pass of the comprehension of lines 84-85.
IntersectionNext ==
    /\ InLoop("intersection")
    /\ IF ~Frame.ok
       THEN /\ pc' = "raised"
            /\ UNCHANGED << position, intersections >>
       ELSE /\ position' = position + 1
            /\ intersections' = IF KeepIntersection(Frame.object, intersection_ids)
                                THEN DictSet(intersections, Frame.object.id, Frame.object)
                                ELSE intersections
            /\ pc' = pc
    /\ UNCHANGED << response, idleVars, statuses, geometries, intersection_ids,
                    references, geojson, printed >>

IntersectionDone ==
    /\ Exhausted("intersection")
    /\ response' = None /\ position' = 0
    /\ pc' = "get_reference"
    /\ UNCHANGED << idleVars, pipelineVars >>

\* One pass of the comprehension of lines 91-92.
ReferenceNext ==
    /\ InLoop("reference")
    /\ IF ~Frame.ok
       THEN /\ pc' = "raised"
            /\ UNCHANGED << position, references >>
       ELSE /\ position' = position + 1
            /\ references' = IF KeepReference(Frame.object, geometries)
                             THEN DictSet(references, Frame.object.id, Frame.object)
                             ELSE references
            /\ pc' = pc
    /\ UNCHANGED << response, idleVars, statuses, geometries, intersection_ids,
                    intersections, geojson, printed >>

\* Line 96: get_tile returns its three mappings to main.
ReferenceDone ==
    /\ Exhausted("reference")
    /\ response' = None /\ position' = 0
    /\ pc' = "returned"
    /\ UNCHANGED << idleVars, pipelineVars >>

\* Line 198.
MakeGeojson ==
    /\ pc = "returned"
    /\ LET r == make_geojson(geometries, intersections, references) IN
          /\ geojson' = r.value
          /\ pc' = IF r.raised THEN "raised" ELSE "assembled"
    /\ UNCHANGED << response, position, idleVars, statuses, geometries, intersection_ids,
                    intersections, references, printed >>

\* Line 199.
PrintDocument ==
    /\ pc = "assembled"
    /\ printed' = geojson
    /\ pc' = "printed"
    /\ UNCHANGED << response, position, idleVars, statuses, geometries, intersection_ids,
                    intersections, references, geojson >>

Next ==
    \/ GetRaises
    \/ GetGeometry \/ GeometryNext \/ GeometryDone
    \/ GetIntersection \/ IntersectionNext \/ IntersectionDone
    \/ GetReference \/ ReferenceNext \/ ReferenceDone
    \/ MakeGeojson
    \/ PrintDocument

Spec == Init /\ [][Next]_vars

(***************************************************************************)
(* Properties of main, get_tile and make_geojson (Spec).                 *)
(***************************************************************************)
\* The objects the running comprehension has taken from iter_objects so far.
Consumed == [i \in 1..position |-> response.content[i].object]

ConsumedIds == { Consumed[i].id : i \in 1..position }

Range(seq) == { seq[i] : i \in 1..Len(seq) }

\* C3: when a layer's fetch fails or answers with a non-success status, or a layer
\* does not decode, get_tile does not return and main prints nothing.  (A failed
\* fetch and an undecodable frame end the run in "raised"; what is left to state is
\* the status.)
C3_FailureMeansNoDocument ==
    (\E i \in 1..Len(statuses) : statuses[i] # 200) =>
        /\ pc \notin {"returned", "assembled", "printed"}
        /\ printed = None

\* A step of the intersection loop leaves geometries alone and raises only on an
\* undecodable frame.
JoinMissIsSilent ==
    pc = "intersection" =>
        /\ geometries' = geometries
        /\ pc' = "raised" => ~Frame.ok

\* C5: the keys of the intersections mapping are the fromIntersectionId and
\* toIntersectionId values of the retained geometries that the intersection layer
\* has a record for; a retained geometry whose intersection ids the layer lacks
\* stays in geometries and nothing raises on its account (only an undecodable
\* frame ends the intersection loop with an error).
C5_IntersectionsJoin ==
    /\ [](pc = "intersection" =>
            DictKeySet(intersections) =
                ({ g.fromIntersectionId : g \in Range(DictValues(geometries)) }
                 \cup { g.toIntersectionId : g \in Range(DictValues(geometries)) })
                \cap ConsumedIds)
    /\ [][JoinMissIsSilent]_vars

\* The intersection layer is exhausted: one of its records was kept, one was named
\* by no geometry, and a retained geometry names an intersection the layer lacks.
C5_Witness ==
    /\ Exhausted("intersection")
    /\ position = 2
    /\ Len(intersections) = 1
    /\ \E g \in Range(DictValues(geometries)) : g.toIntersectionId \notin ConsumedIds

\* A step of the reference fetch or loop leaves geometries and intersections alone.
ReferencesPruneNothing ==
    pc \in {"get_reference", "reference"} =>
        /\ geometries' = geometries
        /\ intersections' = intersections

\* C6: the keys of the references mapping are the ids of exactly the references of
\* the layer whose geometryId is a key of geometries, and neither geometries nor
\* intersections changes while the references are fetched and filtered.
C6_ReferencesJoin ==
    /\ [](pc = "reference" =>
            DictKeySet(references) =
                { r.id : r \in { x \in Range(Consumed) :
                                    \E i \in 1..Len(geometries) : geometries[i][1] = x.geometryId } })
    /\ [][ReferencesPruneNothing]_vars

\* The reference layer is exhausted: one reference was kept and one, whose geometry
\* is not among the geometries, was dropped.
C6_Witness ==
    /\ Exhausted("reference")
    /\ position = 2
    /\ Len(references) = 1
    /\ Len(geometries) >= 1
    /\ Len(intersections) >= 1

WellFormedLonlats(g) == Len(g.lonlats) % 2 = 0 /\ Len(g.lonlats) >= 4

\* C7: a retained geometry whose lonlats has odd length or fewer than four values
\* makes the run raise; no document with a Feature for it is ever assembled.
C7_MalformedGeometryRaises ==
    geojson # None => \A g \in Range(DictValues(geometries)) : WellFormedLonlats(g)

\* make_geojson raised: the run ended after all three layers were read.
RaisedInMakeGeojson == pc = "raised" /\ response = None /\ Len(statuses) = 3

\* C8: a reference whose locationReferences has other than two entries makes
\* reference_feature raise and make_geojson return no document; otherwise each
\* projected reference has exactly two locationReferences, sequence 0 then 1, the
\* second with distanceToNextRef, bearing and outBearing null.
C8_ReferenceShape ==
    /\ (\E r \in Range(DictValues(references)) : Len(r.locationReferences) # 2) =>
            /\ pc \notin {"assembled", "printed"}
            /\ geojson = None
    /\ RaisedInMakeGeojson =>
            \E r \in Range(DictValues(references)) : Len(r.locationReferences) # 2
    /\ geojson # None =>
            /\ Len(geojson.references) = Len(references)
            /\ \A k \in 1..Len(geojson.references) :
                  LET lrs == geojson.references[k].locationReferences IN
                  /\ Len(lrs) = 2
                  /\ lrs[1].sequence = 0 /\ lrs[2].sequence = 1
                  /\ lrs[2].distanceToNextRef = None
                  /\ lrs[2].bearing = None
                  /\ lrs[2].outBearing = None

\* make_geojson has raised on two references: one with two entries, one without.
C8_Witness ==
    /\ RaisedInMakeGeojson
    /\ Len(references) = 2
    /\ \E r \in Range(DictValues(references)) : Len(r.locationReferences) = 2
    /\ \E r \in Range(DictValues(references)) : Len(r.locationReferences) # 2

\* C9: the document make_geojson returns has the projection of every geometry in
\* the mapping's order, then of every intersection in its order, as features, and
\* the projection of every reference in its order as references: nothing sorted,
\* dropped or merged, also when two truncated ids are equal.
C9_DocumentIsConcatenation ==
    geojson # None =>
        /\ geojson.type = "FeatureCollection"
        /\ Len(geojson.features) = Len(geometries) + Len(intersections)
        /\ \A k \in 1..Len(geometries) :
              geojson.features[k] = geometry_feature(geometries[k][2])
        /\ \A k \in 1..Len(intersections) :
              geojson.features[Len(geometries) + k] = intersection_feature(intersections[k][2])
        /\ Len(geojson.references) = Len(references)
        /\ \A k \in 1..Len(references) :
              geojson.references[k] = reference_feature(references[k][2]).value

\* A document was assembled from two geometries whose truncated ids are equal, an
\* intersection and a reference.
C9_Witness ==
    /\ pc = "assembled"
    /\ Len(geometries) = 2
    /\ geometries[1][1] # geometries[2][1]
    /\ geojson.features[1].id = geojson.features[2].id
    /\ Len(intersections) >= 1
    /\ Len(references) >= 1

\* The envelope of a geometry's longitudes and latitudes meets the requested tile.
EnvelopeTouchesTile(g) ==
    /\ \E x \in Lons(g.lonlats) : x >= tile_sw.lon
    /\ \E x \in Lons(g.lonlats) : x <= tile_ne.lon
    /\ \E y \in Lats(g.lonlats) : y >= tile_sw.lat
    /\ \E y \in Lats(g.lonlats) : y <= tile_ne.lat

\* The consumed geometries that pass the bounding-box filter.
InsideRecords ==
    SelectSeq(Consumed, LAMBDA g : EnvelopeTouchesTile(g))

\* The places in a sequence of records at which an id occurs.
Places(records, id) == { i \in 1..Len(records) : records[i].id = id }

\* The places at which an id occurs for the first time.
FirstPlaces(records) ==
    { i \in 1..Len(records) : \A j \in 1..(i - 1) : records[j].id # records[i].id }

\* C10 as stated: an id that several records of the decoded geometry layer have is
\* the key of exactly one entry of geometries, whose value is the latest record of
\* the layer with that id.
C10_LatestRecordOfLayer ==
    Exhausted("geometry") =>
        \A id \in ConsumedIds :
            Cardinality(Places(Consumed, id)) >= 2 =>
                /\ Cardinality({ k \in 1..Len(geometries) : geometries[k][1] = id }) = 1
                /\ \A k \in 1..Len(geometries) :
                      geometries[k][1] = id =>
                          geometries[k][2] = Consumed[SetMax(Places(Consumed, id))]

\* C10 as amended: an id that records passing the bounding-box filter have is the
\* key of exactly one entry of geometries; its value is the latest record with that
\* id that passed the filter, and its place in the iteration order is that of the
\* first record with that id that passed the filter.
C10_LatestRetainedRecord ==
    pc = "geometry" =>
        /\ Len(geometries) = Cardinality(FirstPlaces(InsideRecords))
        /\ \A i \in FirstPlaces(InsideRecords) :
              LET id == InsideRecords[i].id
                  k == Cardinality({ j \in FirstPlaces(InsideRecords) : j <= i })
              IN  /\ geometries[k][1] = id
                  /\ geometries[k][2] = InsideRecords[SetMax(Places(InsideRecords, id))]

\* Three geometries were read: the first and the third have the same id and differ,
\* the second has another id; the entry of the shared id comes first and holds the
\* third record.
C10_Witness ==
    /\ Exhausted("geometry")
    /\ position = 3
    /\ Len(InsideRecords) = 3
    /\ Consumed[1].id = Consumed[3].id
    /\ Consumed[1] # Consumed[3]
    /\ Consumed[2].id # Consumed[1].id
    /\ Len(geometries) = 2
    /\ geometries[1] = <<Consumed[3].id, Consumed[3]>>

====
